---- MODULE Spec2Model ----
(***************************************************************************)
(* Veggie Muse: the History Ledger (src/contexts/app-context.tsx), the     *)
(* three generator components (recipe, weekly plan, culinary passport) and *)
(* the server flows they call (generateRecipe, generateWeeklyPlan,         *)
(* generateCulinaryPassport).                                              *)
(*                                                                         *)
(* Strings are sequences of one-character strings, so that trim, split,    *)
(* startsWith and the "destination|dish" key are computed as the code      *)
(* computes them.  The stored value of a localStorage key is a record      *)
(* [kind, items]: kind says what the text is (absent, empty text, text     *)
(* JSON.parse rejects, JSON that is not an array, a JSON array) and items  *)
(* is the array when there is one.                                         *)
(***************************************************************************)
EXTENDS Integers, Sequences, FiniteSets, TLC

VARIABLES
    storage,        \* localStorage: category key -> stored value
    seen,           \* AppProvider state: category key -> value held in memory
    isInitialized,  \* AppProvider.isInitialized
    apiKey,         \* AppProvider.apiKey (NoKey when null)
    records,        \* number of record operations performed (bounded)
    tab,            \* the mounted generator: "recipe", "weekly-plan", "passport"
    form,           \* recipe form values and the ingredientPhoto state
    fieldError,     \* react-hook-form error on availableIngredients
    isLoading,      \* the mounted generator's isLoading
    result,         \* the mounted generator's recipe / weeklyPlan / passport
    toast,          \* title of the last toast raised ("" when none)
    pc,             \* position of the submission inside the server flow
    req,            \* the input the flow was called with
    flow,           \* local variables of the running flow
    calls,          \* requests issued to the model in this submission, by kind
    ended,          \* how the last submission ended
    submits,        \* number of submit events handled (bounded)
    background,     \* requests still running for a generator that was unmounted
    isVerifiedHuman,\* AppProvider.isVerifiedHuman
    sessionStorage, \* sessionStorage['human-verified-session'] (NoKey when absent)
    now,            \* the time, in ms since the page was opened
    timers,         \* deadlines of the setTimeout calls that are still pending
    timeoutId,      \* useInactivityTimer.timeoutId.current (NoTimer when null)
    lastActivity,   \* time of the last activity event (of the mount before any)
    captcha,        \* state of HumanVerificationModal
    shopping,       \* the shopping list: generated, displayed, downloaded
    chat,           \* state of ChatBot, and its request in flight
    passportKey     \* a passport recorded and the seenDishes of a request

vars == <<storage, seen, isInitialized, apiKey, records, tab, form, fieldError,
          isLoading, result, toast, pc, req, flow, calls, ended, submits,
          background, isVerifiedHuman, sessionStorage, now, timers, timeoutId,
          lastActivity, captcha, shopping, chat, passportKey>>

ledgerVars == <<storage, seen>>
uiVars == <<tab, form, fieldError, isLoading, result, toast, pc, req, flow,
            calls, ended, submits, background>>
timerVars == <<now, timers, timeoutId, lastActivity>>
sessionVars == <<isVerifiedHuman, sessionStorage, timerVars, captcha>>

----------------------------------------------------------------------------
(* Bounds of the model                                                     *)

MaxRecords == 2      \* record operations explored by SpecLedger
MaxSubmits == 2      \* submit events explored by Spec

----------------------------------------------------------------------------
(* Strings                                                                 *)

Digits == <<"0", "1", "2", "3", "4", "5", "6", "7", "8", "9">>

\* the i-th of a family of pairwise different two-digit keys, 0 <= i <= 99
OldKey(prefix, i) == prefix \o <<Digits[(i \div 10) + 1], Digits[(i % 10) + 1]>>

\* [prefix00, prefix01, ...], n entries
OldKeys(prefix, n) == [i \in 1..n |-> OldKey(prefix, i - 1)]

SeqToSet(s) == {s[i] : i \in 1..Len(s)}

NoDuplicates(s) == \A i, j \in 1..Len(s) : s[i] = s[j] => i = j

\* Array.prototype.includes
Includes(s, x) == \E i \in 1..Len(s) : s[i] = x

\* Array.prototype.slice(0, n)
Slice0(s, n) == IF Len(s) <= n THEN s ELSE SubSeq(s, 1, n)

IsSpace(ch) == ch = " "

\* String.prototype.trim
RECURSIVE TrimStart(_)
TrimStart(s) == IF s # <<>> /\ IsSpace(Head(s)) THEN TrimStart(Tail(s)) ELSE s

RECURSIVE TrimEnd(_)
TrimEnd(s) ==
    IF s # <<>> /\ IsSpace(s[Len(s)]) THEN TrimEnd(SubSeq(s, 1, Len(s) - 1))
    ELSE s

Trim(s) == TrimEnd(TrimStart(s))

\* String.prototype.split(sep) for a one-character separator
RECURSIVE Split(_, _)
Split(s, sep) ==
    IF \E i \in 1..Len(s) : s[i] = sep
    THEN LET k == CHOOSE i \in 1..Len(s) :
                     s[i] = sep /\ \A j \in 1..(i - 1) : s[j] # sep
         IN  <<SubSeq(s, 1, k - 1)>> \o Split(SubSeq(s, k + 1, Len(s)), sep)
    ELSE <<s>>

\* String.prototype.startsWith
StartsWith(s, prefix) ==
    Len(prefix) <= Len(s) /\ SubSeq(s, 1, Len(prefix)) = prefix

\* s.split(',').map(x => x.trim()).filter(Boolean), [] for a falsy s
NonEmpty(x) == x # <<>>
ParseList(s) ==
    IF s = <<>> THEN <<>>
    ELSE LET parts == Split(s, ",")
         IN  SelectSeq([i \in 1..Len(parts) |-> Trim(parts[i])], NonEmpty)

----------------------------------------------------------------------------
(* The History Ledger: src/contexts/app-context.tsx                        *)

NoKey == "null"

SEEN_QUOTES_STORAGE_KEY == "seen-recipe-quotes"
SEEN_RECIPES_STORAGE_KEY == "seen-recipe-titles"
SEEN_PASSPORT_DISHES_KEY == "seen-passport-dishes"
SEEN_WEEKLY_PLANS_KEY == "seen-weekly-plan-titles"
MAX_SEEN_ITEMS == 100
API_KEY_STORAGE_KEY == "google-ai-api-key"

Categories == {SEEN_QUOTES_STORAGE_KEY, SEEN_RECIPES_STORAGE_KEY,
               SEEN_PASSPORT_DISHES_KEY, SEEN_WEEKLY_PLANS_KEY}

\* stored values
Absent == [kind |-> "absent", items |-> <<>>]            \* getItem gives null
EmptyText == [kind |-> "empty", items |-> <<>>]          \* getItem gives ""
Unparseable == [kind |-> "unparseable", items |-> <<>>]  \* JSON.parse throws
NonArray == [kind |-> "nonarray", items |-> <<>>]        \* e.g. {"a":1}
Arr(items) == [kind |-> "array", items |-> items]
StoredText(t) == [kind |-> "text", items |-> t]          \* a plain string

\* JSON.stringify of a list of strings
JSONstringify(items) == Arr(items)

\* JSON.parse: ok = FALSE when it throws a SyntaxError
JSONparse(raw) ==
    IF raw.kind = "unparseable" THEN [ok |-> FALSE, val |-> NonArray]
    ELSE [ok |-> TRUE, val |-> raw]

\* `raw ? JSON.parse(raw) : []`  (null and "" are falsy)
ParseOrEmpty(raw) ==
    IF raw.kind \in {"absent", "empty"} THEN [ok |-> TRUE, val |-> Arr(<<>>)]
    ELSE JSONparse(raw)

IsArray(v) == v.kind = "array"

\* The initial-load effect: the four keys are parsed in turn inside one try;
\* a throw by any JSON.parse runs the catch, which sets all four lists to [].
LoadSeen(store) ==
    IF \E c \in Categories : ~ParseOrEmpty(store[c]).ok
    THEN [c \in Categories |-> Arr(<<>>)]
    ELSE [c \in Categories |-> ParseOrEmpty(store[c]).val]

\* as addSeenItem, but the item is put behind the stored entries
addSeenItem_Appends(store, key, item) ==
    LET parsed == ParseOrEmpty(store[key])
    IN  IF parsed.ok /\ IsArray(parsed.val)
        THEN Slice0(parsed.val.items \o <<item>>, MAX_SEEN_ITEMS)
        ELSE <<item>>

\* addSeenItem(key, item): the new list, which is also written to storage
addSeenItem(store, key, item) ==
    LET parsed == ParseOrEmpty(store[key])
    IN  IF parsed.ok /\ IsArray(parsed.val)
        THEN Slice0(<<item>> \o parsed.val.items, MAX_SEEN_ITEMS)
        ELSE <<item>>

\* `${destination}|${dish.dishNameEnglish}`
DishKey(destination, dish) == destination \o <<"|">> \o dish

\* addSeenPassportDishes(dishes, destination): the new list
addSeenPassportDishesList(store, dishes, destination) ==
    LET newDishes == [i \in 1..Len(dishes) |-> DishKey(destination, dishes[i])]
        parsed == ParseOrEmpty(store[SEEN_PASSPORT_DISHES_KEY])
        NotNew(d) == ~Includes(newDishes, d)
    IN  IF parsed.ok /\ IsArray(parsed.val)
        THEN Slice0(newDishes \o SelectSeq(parsed.val.items, NotNew),
                    MAX_SEEN_ITEMS)
        ELSE newDishes

\* the effect of a record operation on the ledger variables
RecordItem(key, item) ==
    LET newItems == addSeenItem(storage, key, item)
    IN  /\ storage' = [storage EXCEPT ![key] = JSONstringify(newItems)]
        /\ seen' = [seen EXCEPT ![key] = Arr(newItems)]

RecordDishes(dishes, destination) ==
    LET newItems == addSeenPassportDishesList(storage, dishes, destination)
    IN  /\ storage' = [storage EXCEPT
                         ![SEEN_PASSPORT_DISHES_KEY] = JSONstringify(newItems)]
        /\ seen' = [seen EXCEPT ![SEEN_PASSPORT_DISHES_KEY] = Arr(newItems)]

----------------------------------------------------------------------------
(* The session: human verification and the inactivity timer                *)
(* src/contexts/app-context.tsx, useInactivityTimer, HumanVerificationModal *)

MaxTicks == 5        \* clock steps explored by SpecSession

\* useInactivityTimer(handleTimeout, 15 * 60 * 1000)
InactivityTimeout == 15 * 60 * 1000

\* the clock advances in thirds of the timeout
ClockStep == InactivityTimeout \div 3

NoTimer == -1                           \* useRef(null)

\* String(isVerified)
String(b) == IF b THEN "true" ELSE "false"

\* as resetTimer, but the timer set before is left pending
resetTimer_NoClear(pending, id, t) == pending \cup {t + InactivityTimeout}

\* resetTimer at time t: the pending deadlines afterwards
resetTimer(pending, id, t) ==
    (IF id # NoTimer THEN pending \ {id} ELSE pending)
        \cup {t + InactivityTimeout}

\* handleActivity: one of mousemove, mousedown, keypress, scroll, touchstart
\* reached the window (a click or a key typed by the user is one, too)
handleActivity ==
    /\ timers' = resetTimer(timers, timeoutId, now)
    /\ timeoutId' = now + InactivityTimeout
    /\ lastActivity' = now
    /\ now' = now

setVerifiedHuman(isVerified) ==
    /\ isVerifiedHuman' = isVerified
    /\ sessionStorage' = String(isVerified)

\* HumanVerificationModal: useState of challenge, isLoading and error
NoChallenge == [question |-> NoKey, answer |-> <<>>]
NoCaptcha == [challenge |-> NoChallenge, isLoading |-> FALSE, error |-> NoKey,
              userInput |-> <<>>]

ErrorIncorrect == "Incorrect. Please try again."
ErrorFailedToLoad == "Failed to load a new challenge. Please try again."
ErrorFetching == "An error occurred while fetching the challenge."
ToastCaptchaError == "CAPTCHA Error"

\* `const isModalOpen = !isVerifiedHuman && isApiKeySet`
isModalOpen(verified, key) == ~verified /\ key # NoKey

\* `<Dialog open={!isApiKeySet}>` of ApiKeyModal
ApiKeyModalOpen(key) == key = NoKey

\* getNewChallenge up to its await (the caller has an API key)
getNewChallenge(c) ==
    [c EXCEPT !.isLoading = TRUE, !.error = NoKey, !.userInput = <<>>]

\* the modal's useEffect, run after a render with these values
CaptchaEffect(c, verified, key) ==
    IF ~verified /\ key # NoKey /\ c.challenge = NoChallenge /\ ~c.isLoading
    THEN getNewChallenge(c) ELSE c

\* as setApiKey, but a removed key leaves the verification as it is
setApiKey_KeepsVerification(key) ==
    /\ apiKey' = key
    /\ storage' = [storage EXCEPT ![API_KEY_STORAGE_KEY] =
                     IF key # NoKey THEN StoredText(key) ELSE Absent]
    /\ UNCHANGED <<isVerifiedHuman, sessionStorage>>
    /\ captcha' = CaptchaEffect(captcha, isVerifiedHuman, key)

\* setApiKey(key), and the render that follows
setApiKey(key) ==
    /\ apiKey' = key
    /\ IF key # NoKey
       THEN /\ storage' = [storage EXCEPT
                             ![API_KEY_STORAGE_KEY] = StoredText(key)]
            /\ UNCHANGED <<isVerifiedHuman, sessionStorage>>
            /\ captcha' = CaptchaEffect(captcha, isVerifiedHuman, key)
       ELSE /\ storage' = [storage EXCEPT ![API_KEY_STORAGE_KEY] = Absent]
            /\ setVerifiedHuman(FALSE)
            /\ captcha' = CaptchaEffect(captcha, FALSE, key)

\* no result is displayed: no shopping list
NoShopping == [generator |-> "recipe", generated |-> <<>>,
               rendered |-> FALSE, displayed |-> <<>>,
               saved |-> FALSE, downloaded |-> <<>>]

\* no passport was recorded and no request was built
NoPassportKey == [destination |-> <<>>, dishes |-> <<>>, asked |-> <<>>,
                  recorded |-> FALSE, built |-> FALSE, seenDishes |-> <<>>]

\* ChatBot: useState of isOpen, messages, input and isLoading; request is
\* what chatWithChef was called with, while the call is awaited
NoChatRequest == [history |-> <<>>, message |-> <<>>, pending |-> FALSE]
NoChat == [isOpen |-> FALSE, messages |-> <<>>, input |-> <<>>,
           isLoading |-> FALSE, request |-> NoChatRequest]

\* the session as the page finds it, with the verification never answered
SessionInit ==
    /\ chat = NoChat
    /\ isVerifiedHuman = FALSE
    /\ now = 0
    /\ timers = {}
    /\ timeoutId = NoTimer
    /\ lastActivity = 0
    /\ captcha = NoCaptcha

----------------------------------------------------------------------------
(* Values the inputs are drawn from                                        *)

Quotes == {<<"q", "1">>, <<"q", "2">>}
Titles == {<<"t", "1">>, <<"t", "2">>}
PlanTitles == {<<"p", "1">>, <<"p", "2">>}
Destinations == {<<"d", "s", "1">>, <<"d", "s", "2">>}
DishNames == {<<"n", "1">>, <<"n", "2">>, <<"n", "3">>}
DishLists == {<<>>} \cup {<<a>> : a \in DishNames}
                 \cup {<<a, b>> : a, b \in DishNames}

\* what a browser may hold under a category's key when the page is opened:
\* nothing, text that is not JSON, JSON that is not an array, or the list
\* left by earlier sessions (here one entry short of the cap)
OldPrefix(c) == IF c = SEEN_PASSPORT_DISHES_KEY
                THEN DishKey(<<"d", "s", "1">>, <<"o">>)
                ELSE <<"o">>
StoredAtOpen(c) ==
    {Absent, Unparseable, NonArray, Arr(OldKeys(OldPrefix(c), MAX_SEEN_ITEMS - 1))}

Idle == "idle"
NoResult == [shown |-> "nothing"]       \* useState(null) of the result
NoRequest == [apiKey |-> NoKey]         \* no flow has been called yet
NoForm == [checklist |-> <<>>, text |-> <<>>, photo |-> "undefined",
           ingredientPhoto |-> NoKey]
NoCalls == [text |-> 0, select |-> 0, image |-> <<>>, audio |-> 0]
NoFlow == [attempts |-> 0]

UiInit ==
    /\ tab = "recipe"
    /\ form = NoForm
    /\ fieldError = ""
    /\ isLoading = FALSE
    /\ result = NoResult
    /\ toast = ""
    /\ pc = Idle
    /\ req = NoRequest
    /\ flow = NoFlow
    /\ calls = NoCalls
    /\ ended = ""
    /\ submits = 0
    /\ background = <<>>

----------------------------------------------------------------------------
(* SpecLedger: the ledger alone, driven through the context's operations   *)

InitLedger ==
    /\ storage \in [Categories \cup {API_KEY_STORAGE_KEY} ->
                      UNION {StoredAtOpen(c) : c \in Categories}
                          \cup {StoredText("AIza")}]
    /\ \A c \in Categories : storage[c] \in StoredAtOpen(c)
    /\ storage[API_KEY_STORAGE_KEY] = StoredText("AIza")
    /\ seen = [c \in Categories |-> Arr(<<>>)]
    /\ isInitialized = FALSE
    /\ apiKey = NoKey
    /\ records = 0
    /\ UiInit
    /\ SessionInit
    /\ passportKey = NoPassportKey
    /\ sessionStorage = NoKey
    /\ shopping = NoShopping

\* the mount effects of AppProvider: useInactivityTimer sets the first
\* timer, then the key, the verification flag and the seen lists are loaded;
\* the children (and the modal's effect) are rendered after that
LoadEffect ==
    /\ ~isInitialized
    /\ handleActivity
    /\ apiKey' = IF storage[API_KEY_STORAGE_KEY].kind = "text"
                 THEN storage[API_KEY_STORAGE_KEY].items ELSE apiKey
    /\ isVerifiedHuman' = (sessionStorage = "true")
    /\ captcha' = CaptchaEffect(captcha, isVerifiedHuman', apiKey')
    /\ seen' = LoadSeen(storage)
    /\ isInitialized' = TRUE
    /\ UNCHANGED <<storage, records, uiVars, sessionStorage, shopping, chat, passportKey>>

CanRecord == isInitialized /\ records < MaxRecords

AddSeenQuote ==
    /\ UNCHANGED <<sessionVars, shopping, chat, passportKey>>
    /\ CanRecord
    /\ \E q \in Quotes : RecordItem(SEEN_QUOTES_STORAGE_KEY, q)
    /\ records' = records + 1
    /\ UNCHANGED <<isInitialized, apiKey, uiVars>>

AddSeenRecipeTitle ==
    /\ UNCHANGED <<sessionVars, shopping, chat, passportKey>>
    /\ CanRecord
    /\ \E t \in Titles : RecordItem(SEEN_RECIPES_STORAGE_KEY, t)
    /\ records' = records + 1
    /\ UNCHANGED <<isInitialized, apiKey, uiVars>>

AddSeenWeeklyPlanTitle ==
    /\ UNCHANGED <<sessionVars, shopping, chat, passportKey>>
    /\ CanRecord
    /\ \E t \in PlanTitles : RecordItem(SEEN_WEEKLY_PLANS_KEY, t)
    /\ records' = records + 1
    /\ UNCHANGED <<isInitialized, apiKey, uiVars>>

AddSeenPassportDishes ==
    /\ UNCHANGED <<sessionVars, shopping, chat, passportKey>>
    /\ CanRecord
    /\ \E dishes \in DishLists, d \in Destinations : RecordDishes(dishes, d)
    /\ records' = records + 1
    /\ UNCHANGED <<isInitialized, apiKey, uiVars>>

NextLedger ==
    \/ LoadEffect
    \/ AddSeenQuote
    \/ AddSeenRecipeTitle
    \/ AddSeenWeeklyPlanTitle
    \/ AddSeenPassportDishes

SpecLedger == InitLedger /\ [][NextLedger]_vars

\* the ledger of a browser that holds the same kind of value under each of
\* the four keys when the page is opened
InitRecord ==
    /\ InitLedger
    /\ \A c, d \in Categories : storage[c].kind = storage[d].kind

SpecRecord == InitRecord /\ [][NextLedger]_vars

----------------------------------------------------------------------------
(* C2: after any sequence of record operations every history category      *)
(* holds at most MAX_SEEN_ITEMS (100) entries and no key more than once,    *)
(* also after the same key was recorded repeatedly.                        *)

C2_CappedAndUnique ==
    \A c \in Categories :
        IsArray(seen[c]) =>
            /\ Len(seen[c].items) <= MAX_SEEN_ITEMS
            /\ NoDuplicates(seen[c].items)

(* C3: a corrupted stored value (text that does not parse, or JSON that is *)
(* not an array) is treated as empty: after the initial load the list in   *)
(* memory is the empty array, after the next record on that category it is *)
(* the one new key, and no error is shown to the user.                     *)

Corrupted(raw) == raw.kind \in {"unparseable", "nonarray"}

C3_CorruptedIsEmpty ==
    [][\A c \in Categories :
          Corrupted(storage[c]) =>
            /\ (~isInitialized /\ isInitialized') => seen'[c] = Arr(<<>>)
            /\ (storage'[c] # storage[c]) =>
                  /\ IsArray(seen'[c])
                  /\ Len(seen'[c].items) = 1
                  /\ storage'[c] = JSONstringify(seen'[c].items)
            /\ toast' = toast]_vars

----------------------------------------------------------------------------
(* The generators: what the model is asked and what it may answer          *)

\* <<checklist, free text>> pairs the user may leave in the recipe form
FormValues == {<<<<>>, <<>>>>, <<<<>>, <<" ", " ">>>>,
               <<<<>>, <<" ", "a", ",", "b">>>>, <<<<"Rice">>, <<>>>>}

\* stage 1 answers with exactly five recipe options and five quote options
\* (GenerateRecipeOptionsOutputSchema); an option is identified by its title
RecipeOptionSets ==
    {<<[recipeName |-> a], [recipeName |-> b], [recipeName |-> c],
       [recipeName |-> c], [recipeName |-> c]>> : a, b, c \in Titles}
QuoteOptionSets ==
    {<<[quote |-> a], [quote |-> b], [quote |-> b], [quote |-> b],
       [quote |-> b]>> : a, b \in Quotes}

\* toast titles
ToastMissingKey == "API Key is missing."
ToastGenerationFailed == "Generation Failed"
ToastUnsafeIngredients == "Unsafe Ingredients Detected"
ToastUnsafePreferences == "Unsafe Preferences Detected"
ToastUnexpected == "An unexpected error occurred."
ToastErrorOccurred == "An error occurred."
ToastNoNewRecommendations == "No New Recommendations"

IngredientMessage ==
    "Please provide at least one ingredient via photo, checklist, or text input."

IsApiKeySet == apiKey # NoKey

\* `const isUiDisabled = !isApiKeySet || isLoading` (the fieldset and the
\* submit button of each generator)
isUiDisabled == ~IsApiKeySet \/ isLoading

\* `if (isLoading) renderLoading; if (result) renderResult; renderForm`
FormRendered == isInitialized /\ pc = Idle /\ ~isLoading /\ result = NoResult

Truthy(photo) == photo \notin {"undefined", NoKey}

\* as NoIngredientSignal, but the free text is not trimmed
NoIngredientSignal_NoTrim(data, photo) ==
    /\ Len(data.checklist) = 0
    /\ data.text = <<>>
    /\ ~Truthy(photo)

\* the three-way test shared by recipeFormSchema.superRefine (on data.photo)
\* and by onSubmit (on the ingredientPhoto state)
NoIngredientSignal(data, photo) ==
    /\ Len(data.checklist) = 0
    /\ (data.text = <<>> \/ Trim(data.text) = <<>>)
    /\ ~Truthy(photo)

\* as KeyMissing, but the test is left out
KeyMissing_Never(key) == FALSE

\* `if (!apiKey)` at the head of each onSubmit
KeyMissing(key) == key \in {NoKey, ""}

\* z.array(z.string()).optional() of the flow's input schema
ValidSeenList(v) == IsArray(v)

\* the submission has ended: `finally { setIsLoading(false) }`
Finish(how, shown) ==
    /\ isLoading' = FALSE
    /\ pc' = Idle
    /\ flow' = NoFlow
    /\ ended' = how
    /\ toast' = shown

\* the catch block of RecipeGenerator.onSubmit
RecipeCatchToast(message) ==
    IF message = "SAFETY_BLOCK" THEN ToastUnsafeIngredients ELSE ToastUnexpected

\* the catch block of WeeklyPlanGenerator.onSubmit
WeeklyCatchToast(message) ==
    IF message = "SAFETY_BLOCK" THEN ToastUnsafePreferences ELSE ToastUnexpected

\* the catch block of CulinaryPassportGenerator.onSubmit
PassportCatchToast(message) == ToastErrorOccurred

----------------------------------------------------------------------------
(* RecipeGenerator                                                         *)

EditForm ==
    /\ UNCHANGED <<background, sessionVars, shopping, chat, passportKey>>
    /\ tab = "recipe" /\ FormRendered /\ IsApiKeySet
    /\ \E v \in FormValues :
          /\ v # <<form.checklist, form.text>>
          /\ form' = [form EXCEPT !.checklist = v[1], !.text = v[2]]
    /\ UNCHANGED <<storage, seen, isInitialized, apiKey, records, tab,
                   fieldError, isLoading, result, toast, pc, req, flow, calls,
                   ended, submits>>

\* handleFileChange -> reader.onloadend; reader.result is null when the read
\* failed
HandleFileChange ==
    /\ UNCHANGED <<background, sessionVars, shopping, chat, passportKey>>
    /\ tab = "recipe" /\ FormRendered /\ IsApiKeySet
    /\ \E r \in {"data:image", NoKey} :
          /\ [form EXCEPT !.ingredientPhoto = r, !.photo = "uploaded"] # form
          /\ form' = [form EXCEPT !.ingredientPhoto = r, !.photo = "uploaded"]
    /\ fieldError' = ""
    /\ UNCHANGED <<storage, seen, isInitialized, apiKey, records, tab,
                   isLoading, result, toast, pc, req, flow, calls, ended,
                   submits>>

RemovePhoto ==
    /\ UNCHANGED <<background, sessionVars, shopping, chat, passportKey>>
    /\ tab = "recipe" /\ FormRendered /\ IsApiKeySet
    /\ Truthy(form.ingredientPhoto)
    /\ form' = [form EXCEPT !.ingredientPhoto = NoKey, !.photo = NoKey]
    /\ UNCHANGED <<storage, seen, isInitialized, apiKey, records, tab,
                   fieldError, isLoading, result, toast, pc, req, flow, calls,
                   ended, submits>>

RecipeRequest ==
    [availableIngredients |-> form.checklist,
     additionalIngredients |-> ParseList(form.text),
     photoDataUri |-> IF Truthy(form.ingredientPhoto)
                      THEN form.ingredientPhoto ELSE "undefined",
     seenQuotes |-> seen[SEEN_QUOTES_STORAGE_KEY],
     seenRecipeTitles |-> seen[SEEN_RECIPES_STORAGE_KEY],
     apiKey |-> apiKey]

\* form.handleSubmit(onSubmit): the resolver runs recipeFormSchema, then
\* onSubmit runs up to its first await
RecipeSubmit ==
    /\ UNCHANGED <<background, sessionVars, shopping, chat, passportKey>>
    /\ tab = "recipe" /\ FormRendered
    /\ submits < MaxSubmits
    /\ submits' = submits + 1
    /\ UNCHANGED <<storage, seen, isInitialized, apiKey, records, tab, form>>
    /\ IF NoIngredientSignal(form, form.photo)
       THEN \* the resolver reports the issue; onSubmit is not called
            /\ fieldError' = IngredientMessage
            /\ ended' = "blocked"
            /\ UNCHANGED <<isLoading, result, toast, pc, req, flow, calls>>
       ELSE IF NoIngredientSignal(form, form.ingredientPhoto)
       THEN /\ fieldError' = IngredientMessage
            /\ ended' = "blocked"
            /\ UNCHANGED <<isLoading, result, toast, pc, req, flow, calls>>
       ELSE IF KeyMissing(apiKey)
       THEN /\ fieldError' = ""
            /\ toast' = ToastMissingKey
            /\ ended' = "nokey"
            /\ UNCHANGED <<isLoading, result, pc, req, flow, calls>>
       ELSE /\ fieldError' = ""
            /\ result' = NoResult
            /\ req' = RecipeRequest
            /\ flow' = NoFlow
            /\ IF ValidSeenList(seen[SEEN_QUOTES_STORAGE_KEY])
                  /\ ValidSeenList(seen[SEEN_RECIPES_STORAGE_KEY])
               THEN \* generateOptionsPrompt(flowInput) is awaited
                    /\ isLoading' = TRUE
                    /\ pc' = "stage1"
                    /\ calls' = [NoCalls EXCEPT !.text = 1]
                    /\ toast' = toast
                    /\ ended' = ""
               ELSE \* the flow rejects its input; onSubmit's catch runs
                    /\ calls' = NoCalls
                    /\ isLoading' = FALSE
                    /\ pc' = Idle
                    /\ ended' = "threw"
                    /\ toast' = RecipeCatchToast("schema")

\* as FirstUnseen, but the seen list is ignored
FirstUnseen_AlwaysFirst(options, seenList) == 1

\* "select the first one whose title is semantically different from the
\* titles in the seen list ... if all are similar, select the first"
\* (two titles are taken to mean the same when they are equal)
FirstUnseen(options, seenList) ==
    LET unseen == {i \in 1..Len(options) : ~Includes(seenList, options[i])}
    IN  IF unseen = {} THEN 1
        ELSE CHOOSE i \in unseen : \A j \in unseen : i <= j

OptionTitles(options) == [i \in 1..Len(options) |-> options[i].recipeName]
OptionQuotes(options) == [i \in 1..Len(options) |-> options[i].quote]

\* the answer of validateAndSelectPrompt when it follows its prompt
ValidateAndSelect(recipeOptions, quoteOptions, seenRecipeTitles, seenQuotes) ==
    [selectedRecipe |->
        recipeOptions[FirstUnseen(OptionTitles(recipeOptions), seenRecipeTitles)],
     selectedQuote |->
        quoteOptions[FirstUnseen(OptionQuotes(quoteOptions), seenQuotes)]]

\* the catch of step 2
FallbackSelection(recipeOptions, quoteOptions) ==
    [selectedRecipe |-> recipeOptions[1], selectedQuote |-> quoteOptions[1]]

\* `if (result) {...} else {toast(...)}` after generateRecipe returned null
RecipeReturnsNull ==
    /\ Finish("null", ToastGenerationFailed)
    /\ UNCHANGED <<storage, seen, result>>

\* as RecipeStage1Failed, but the request is issued again, as the
\* weekly-plan flow does
RecipeStage1Failed_Retry ==
    IF calls.text < 3
    THEN /\ calls' = [calls EXCEPT !.text = @ + 1]
         /\ UNCHANGED <<storage, seen, isLoading, result, toast, pc, flow,
                        ended>>
    ELSE /\ Finish("null", ToastGenerationFailed)
         /\ UNCHANGED <<storage, seen, result, calls>>

\* the catch of step 1 for an error that is not a safety block, and the
\* `if (!optionsOutput) return null`
RecipeStage1Failed ==
    /\ RecipeReturnsNull
    /\ UNCHANGED calls

\* step 1 of generateRecipeFlow resolves
RecipeStage1 ==
    /\ UNCHANGED <<background, sessionVars, shopping, chat, passportKey>>
    /\ tab = "recipe" /\ pc = "stage1"
    /\ UNCHANGED <<isInitialized, apiKey, records, tab, form, fieldError, req,
                   submits>>
    /\ \/ \E ro \in RecipeOptionSets, qo \in QuoteOptionSets :
             /\ flow' = [attempts |-> 0, recipeOptions |-> ro,
                         quoteOptions |-> qo]
             /\ pc' = "stage2"
             /\ calls' = [calls EXCEPT !.select = 1]
             /\ UNCHANGED <<storage, seen, isLoading, result, toast, ended>>
       \/ \* the prompt threw and the message contains SAFETY
          /\ Finish("safety", RecipeCatchToast("SAFETY_BLOCK"))
          /\ UNCHANGED <<storage, seen, result, calls>>
       \/ \* the prompt threw another error, or its output was empty
          RecipeStage1Failed

\* step 2 resolves; step 3 is started unless the flow returns
RecipeStage2 ==
    /\ UNCHANGED <<background, sessionVars, shopping, chat, passportKey>>
    /\ tab = "recipe" /\ pc = "stage2"
    /\ UNCHANGED <<isInitialized, apiKey, records, tab, form, fieldError, req,
                   submits>>
    /\ \/ \E how \in {"answered", "threw"} :
           LET sel == IF how = "answered"
                      THEN ValidateAndSelect(flow.recipeOptions,
                               flow.quoteOptions, req.seenRecipeTitles.items,
                               req.seenQuotes.items)
                      ELSE FallbackSelection(flow.recipeOptions,
                                             flow.quoteOptions)
           IN
             /\ flow' = [attempts |-> 0, recipeOptions |-> flow.recipeOptions,
                         quoteOptions |-> flow.quoteOptions,
                         finalSelection |-> sel, stage2 |-> how]
             /\ pc' = "image"
             /\ calls' = [calls EXCEPT !.image = <<1>>]
             /\ UNCHANGED <<storage, seen, isLoading, result, toast, ended>>
       \/ \* the prompt resolved with an empty output
          /\ RecipeReturnsNull
          /\ UNCHANGED calls

\* `media?.url || ''`
MediaUrl(outcome) == IF outcome = "media" THEN "data:image" ELSE ""

\* step 3 resolves (one request, no loop), the flow returns the recipe and
\* onSubmit shows it and records its quote and title
RecipeImage ==
    /\ UNCHANGED <<background, sessionVars, shopping, chat, passportKey>>
    /\ tab = "recipe" /\ pc = "image"
    /\ UNCHANGED <<isInitialized, apiKey, records, tab, form, fieldError, req,
                   calls, submits>>
    /\ \E outcome \in {"media", "nomedia", "threw"} :
         LET recipe == [recipeName |-> flow.finalSelection.selectedRecipe.recipeName,
                        quote |-> flow.finalSelection.selectedQuote.quote,
                        photoDataUri |-> MediaUrl(outcome)]
             afterQuote == [storage EXCEPT ![SEEN_QUOTES_STORAGE_KEY] =
                              JSONstringify(addSeenItem(storage,
                                  SEEN_QUOTES_STORAGE_KEY, recipe.quote))]
         IN  /\ result' = recipe
             /\ storage' = [afterQuote EXCEPT ![SEEN_RECIPES_STORAGE_KEY] =
                              JSONstringify(addSeenItem(afterQuote,
                                  SEEN_RECIPES_STORAGE_KEY, recipe.recipeName))]
             /\ seen' = [seen EXCEPT
                  ![SEEN_QUOTES_STORAGE_KEY] =
                      Arr(addSeenItem(storage, SEEN_QUOTES_STORAGE_KEY,
                                      recipe.quote)),
                  ![SEEN_RECIPES_STORAGE_KEY] =
                      Arr(addSeenItem(storage, SEEN_RECIPES_STORAGE_KEY,
                                      recipe.recipeName))]
             /\ Finish("shown", toast)

\* the "Generate Another" / "Create Another ..." / "Try Again" button
GenerateAnother ==
    /\ UNCHANGED <<background, sessionVars, shopping, chat, passportKey>>
    /\ isInitialized /\ pc = Idle /\ ~isLoading /\ result # NoResult
    /\ result' = NoResult
    /\ UNCHANGED <<storage, seen, isInitialized, apiKey, records, tab, form,
                   fieldError, isLoading, toast, pc, req, flow, calls, ended,
                   submits>>

----------------------------------------------------------------------------
(* WeeklyPlanGenerator and generateWeeklyPlanFlow                          *)

WeeklyMaxAttempts == 3

\* plan titles the model may answer with; "" is a title that is not recorded
AnsweredPlanTitles == PlanTitles \cup {<<>>}

WeeklySubmit ==
    /\ UNCHANGED <<background, sessionVars, shopping, chat, passportKey>>
    /\ tab = "weekly-plan" /\ FormRendered
    /\ submits < MaxSubmits
    /\ submits' = submits + 1
    /\ UNCHANGED <<storage, seen, isInitialized, apiKey, records, tab, form,
                   fieldError>>
    /\ IF KeyMissing(apiKey)
       THEN /\ toast' = ToastMissingKey
            /\ ended' = "nokey"
            /\ UNCHANGED <<isLoading, result, pc, req, flow, calls>>
       ELSE /\ result' = NoResult
            /\ req' = [seenPlanTitles |-> seen[SEEN_WEEKLY_PLANS_KEY],
                       apiKey |-> apiKey]
            /\ IF ValidSeenList(seen[SEEN_WEEKLY_PLANS_KEY])
               THEN \* first pass of the while loop: weeklyPlanPrompt awaited
                    /\ isLoading' = TRUE
                    /\ pc' = "wtext"
                    /\ flow' = [attempts |-> 1]
                    /\ calls' = [NoCalls EXCEPT !.text = 1]
                    /\ toast' = toast
                    /\ ended' = ""
               ELSE \* the flow rejects its input; onSubmit's catch runs
                    /\ flow' = NoFlow
                    /\ calls' = NoCalls
                    /\ isLoading' = FALSE
                    /\ pc' = Idle
                    /\ ended' = "threw"
                    /\ toast' = WeeklyCatchToast("schema")

\* as WeeklyRetryOrNull, with `<=` for `<`
WeeklyRetryOrNull_OffByOne ==
    IF flow.attempts <= WeeklyMaxAttempts
    THEN /\ flow' = [flow EXCEPT !.attempts = @ + 1]
         /\ calls' = [calls EXCEPT !.text = @ + 1]
         /\ UNCHANGED <<storage, seen, isLoading, result, toast, pc, ended>>
    ELSE /\ Finish("null", ToastGenerationFailed)
         /\ UNCHANGED <<storage, seen, result, calls>>

\* `while (!output && attempts < maxAttempts)`: the next pass, or null
WeeklyRetryOrNull ==
    IF flow.attempts < WeeklyMaxAttempts
    THEN /\ flow' = [flow EXCEPT !.attempts = @ + 1]
         /\ calls' = [calls EXCEPT !.text = @ + 1]
         /\ UNCHANGED <<storage, seen, isLoading, result, toast, pc, ended>>
    ELSE /\ Finish("null", ToastGenerationFailed)
         /\ UNCHANGED <<storage, seen, result, calls>>

\* one weeklyPlanPrompt request resolves
WeeklyText ==
    /\ UNCHANGED <<background, sessionVars, shopping, chat, passportKey>>
    /\ tab = "weekly-plan" /\ pc = "wtext"
    /\ UNCHANGED <<isInitialized, apiKey, records, tab, form, fieldError, req,
                   submits>>
    /\ \/ \E title \in AnsweredPlanTitles :
             /\ result' = [planTitle |-> title]
             /\ IF title # <<>>
                THEN RecordItem(SEEN_WEEKLY_PLANS_KEY, title)
                ELSE UNCHANGED <<storage, seen>>
             /\ Finish("shown", toast)
             /\ UNCHANGED calls
       \/ \* the prompt threw and the message contains SAFETY
          /\ Finish("safety", WeeklyCatchToast("SAFETY_BLOCK"))
          /\ UNCHANGED <<storage, seen, result, calls>>
       \/ \* the prompt threw another error, or its output was empty
          WeeklyRetryOrNull

----------------------------------------------------------------------------
(* CulinaryPassportGenerator and culinaryPassportFlow                      *)

PassportMaxTextAttempts == 3
ImageMaxAttempts == 3
AudioMaxAttempts == 3

\* CulinaryPassportTextSchema: at most three recommendations, any message
AnsweredDishLists ==
    {<<>>, <<<<"n", "1">>>>, <<<<"n", "2">>, <<"n", "1">>>>}
AnsweredMessages == {"", "chef card"}

\* seenPassportDishes.filter(d => d.startsWith(`${destination}|`))
\*                   .map(d => d.split('|')[1])
SeenDishesForDestination(list, destination) ==
    LET OfDestination(d) == StartsWith(d, destination \o <<"|">>)
        kept == SelectSeq(list, OfDestination)
    IN  [i \in 1..Len(kept) |-> Split(kept[i], "|")[2]]

createFallbackPassport ==
    [recommendations |-> <<>>, chefCardMessage |-> "We're sorry",
     chefCardAudioUri |-> ""]

PassportSubmit ==
    /\ UNCHANGED <<background, sessionVars, shopping, chat, passportKey>>
    /\ tab = "passport" /\ FormRendered
    /\ submits < MaxSubmits
    /\ submits' = submits + 1
    /\ UNCHANGED <<storage, seen, isInitialized, apiKey, records, tab, form,
                   fieldError>>
    /\ IF KeyMissing(apiKey)
       THEN /\ toast' = ToastMissingKey
            /\ ended' = "nokey"
            /\ UNCHANGED <<isLoading, result, pc, req, flow, calls>>
       ELSE /\ isLoading' = TRUE
            /\ result' = NoResult
            /\ toast' = toast
            /\ IF IsArray(seen[SEEN_PASSPORT_DISHES_KEY])
               THEN \E destination \in Destinations :
                    /\ req' = [destination |-> destination,
                               seenDishes |-> SeenDishesForDestination(
                                   seen[SEEN_PASSPORT_DISHES_KEY].items,
                                   destination),
                               apiKey |-> apiKey]
                    /\ pc' = "ptext"
                    /\ flow' = [attempts |-> 1]
                    /\ calls' = [NoCalls EXCEPT !.text = 1]
                    /\ ended' = ""
               ELSE \* seenPassportDishes.filter is not a function: the
                    \* TypeError is thrown before the try block is entered
                    /\ pc' = Idle
                    /\ ended' = "crashed"
                    /\ UNCHANGED <<req, flow, calls>>

\* `else if (result.recommendations.length === 0 && chefCardAudioUri === '')`
PassportShowsFallback(passport) ==
    Len(passport.recommendations) = 0 /\ passport.chefCardAudioUri = ""

\* the three branches of onSubmit after generateCulinaryPassport returned
PassportReturned(passport) ==
    /\ result' = passport
    /\ IF Len(passport.recommendations) > 0
       THEN /\ RecordDishes([i \in 1..Len(passport.recommendations) |->
                               passport.recommendations[i].dishNameEnglish],
                            req.destination)
            /\ Finish("shown", toast)
       ELSE IF PassportShowsFallback(passport)
       THEN /\ Finish("failed", ToastGenerationFailed)
            /\ UNCHANGED <<storage, seen>>
       ELSE /\ Finish("shown", ToastNoNewRecommendations)
            /\ UNCHANGED <<storage, seen>>

PassportRetryOrFallback ==
    IF flow.attempts < PassportMaxTextAttempts
    THEN /\ flow' = [flow EXCEPT !.attempts = @ + 1]
         /\ calls' = [calls EXCEPT !.text = @ + 1]
         /\ UNCHANGED <<storage, seen, isLoading, result, toast, pc, ended>>
    ELSE /\ PassportReturned(createFallbackPassport)
         /\ UNCHANGED calls

Pending == [attempts |-> 1, done |-> FALSE, url |-> ""]
Done(url) == [attempts |-> 0, done |-> TRUE, url |-> url]

\* one passportTextPrompt request resolves; on success every image task and
\* the audio task run up to their first await
PassportText ==
    /\ UNCHANGED <<background, sessionVars, shopping, chat, passportKey>>
    /\ tab = "passport" /\ pc = "ptext"
    /\ UNCHANGED <<isInitialized, apiKey, records, tab, form, fieldError, req,
                   submits>>
    /\ \/ \E dishes \in AnsweredDishLists, message \in AnsweredMessages :
             /\ flow' = [attempts |-> flow.attempts,
                         textOutput |-> [recommendations |-> dishes,
                                         chefCardMessage |-> message],
                         images |-> [i \in 1..Len(dishes) |-> Pending],
                         audio |-> IF message = "" THEN Done("") ELSE Pending]
             /\ calls' = [calls EXCEPT
                            !.image = [i \in 1..Len(dishes) |-> 1],
                            !.audio = IF message = "" THEN 0 ELSE 1]
             /\ pc' = "media"
             /\ UNCHANGED <<storage, seen, isLoading, result, toast, ended>>
       \/ \* the prompt threw and the message contains SAFETY
          /\ Finish("safety", PassportCatchToast("SAFETY_BLOCK"))
          /\ UNCHANGED <<storage, seen, result, calls>>
       \/ \* the prompt threw another error, or its output was empty
          PassportRetryOrFallback

\* as RetryOrGiveUp, with `<=` for `<`
RetryOrGiveUp_OffByOne(task, maxAttempts) ==
    IF task.attempts <= maxAttempts
    THEN [task EXCEPT !.attempts = @ + 1]
    ELSE [task EXCEPT !.done = TRUE]

\* `while (!media && attempts < maxAttempts)` after a request that gave no
\* media: the next pass, or the task ends without a URL
RetryOrGiveUp(task, maxAttempts) ==
    IF task.attempts < maxAttempts
    THEN [task EXCEPT !.attempts = @ + 1]
    ELSE [task EXCEPT !.done = TRUE]

\* the image request of recommendation i resolves
PassportImage ==
    /\ UNCHANGED <<background, sessionVars, shopping, chat, passportKey>>
    /\ tab = "passport" /\ pc = "media"
    /\ \E i \in 1..Len(flow.images) :
         /\ ~flow.images[i].done
         /\ \/ /\ flow' = [flow EXCEPT !.images[i] =
                             [@ EXCEPT !.done = TRUE, !.url = "data:image"]]
               /\ UNCHANGED calls
            \/ \* ai.generate threw, or returned no media
               LET next == RetryOrGiveUp(flow.images[i], ImageMaxAttempts)
               IN  /\ flow' = [flow EXCEPT !.images[i] = next]
                   /\ calls' = IF next.done THEN calls
                               ELSE [calls EXCEPT !.image[i] = @ + 1]
    /\ UNCHANGED <<storage, seen, isInitialized, apiKey, records, tab, form,
                   fieldError, isLoading, result, toast, pc, req, ended,
                   submits>>

\* the audio request resolves
PassportAudio ==
    /\ UNCHANGED <<background, sessionVars, shopping, chat, passportKey>>
    /\ tab = "passport" /\ pc = "media"
    /\ ~flow.audio.done
    /\ \/ /\ flow' = [flow EXCEPT !.audio =
                        [@ EXCEPT !.done = TRUE, !.url = "data:audio/wav"]]
          /\ UNCHANGED calls
       \/ \* ai.generate threw, or returned no media
          LET next == RetryOrGiveUp(flow.audio, AudioMaxAttempts)
          IN  /\ flow' = [flow EXCEPT !.audio = next]
              /\ calls' = IF next.done THEN calls
                          ELSE [calls EXCEPT !.audio = @ + 1]
    /\ UNCHANGED <<storage, seen, isInitialized, apiKey, records, tab, form,
                   fieldError, isLoading, result, toast, pc, req, ended,
                   submits>>

\* as AllSettled, but only the audio task is awaited
AllSettled_AudioOnly(f) == f.audio.done

\* `await Promise.all([Promise.all(imagePromises), audioPromise()])`
AllSettled(f) ==
    /\ f.audio.done
    /\ \A i \in 1..Len(f.images) : f.images[i].done

\* Promise.all resolves: the flow returns the passport and onSubmit shows it
PassportReturn ==
    /\ UNCHANGED <<background, sessionVars, shopping, chat, passportKey>>
    /\ tab = "passport" /\ pc = "media"
    /\ AllSettled(flow)
    /\ PassportReturned(
         [recommendations |->
            [i \in 1..Len(flow.images) |->
               [dishNameEnglish |-> flow.textOutput.recommendations[i],
                photoDataUri |-> flow.images[i].url]],
          chefCardMessage |-> flow.textOutput.chefCardMessage,
          chefCardAudioUri |-> flow.audio.url])
    /\ UNCHANGED <<isInitialized, apiKey, records, tab, form, fieldError, req,
                   calls, submits>>

----------------------------------------------------------------------------
(* The page: tabs and the API key                                          *)

Tabs == {"recipe", "weekly-plan", "passport"}

\* what a generator component holds when it is mounted
Mounted ==
    /\ form' = NoForm
    /\ fieldError' = ""
    /\ isLoading' = FALSE
    /\ result' = NoResult
    /\ ended' = ""
    /\ req' = NoRequest
    /\ calls' = NoCalls
    /\ pc' = Idle
    /\ flow' = NoFlow

\* Tabs of Home: the content of the inactive tab is not rendered, so the
\* generator that was shown is unmounted and the newly shown one is mounted
\* with its initial state; here no request is awaited
SwitchTab ==
    /\ UNCHANGED <<background, sessionVars, shopping, chat, passportKey>>
    /\ isInitialized /\ pc = Idle
    /\ \E t \in Tabs \ {tab} : tab' = t
    /\ Mounted
    /\ UNCHANGED <<storage, seen, isInitialized, apiKey, records, toast,
                   submits>>

\* the same while the generator awaits its request (the tab triggers are
\* not disabled): the component's state is dropped, the request keeps
\* running
SwitchTabInFlight ==
    /\ UNCHANGED <<sessionVars, shopping, chat, passportKey>>
    /\ isInitialized /\ pc # Idle
    /\ \E t \in Tabs \ {tab} : tab' = t
    /\ background' = Append(background, [gen |-> tab, req |-> req])
    /\ Mounted
    /\ UNCHANGED <<storage, seen, isInitialized, apiKey, records, toast,
                   submits>>

\* the requests left when the i-th has settled
RemoveAt(s, i) == SubSeq(s, 1, i - 1) \o SubSeq(s, i + 1, Len(s))

\* the request of an unmounted generator comes back: the rest of its onSubmit
\* runs; the setState calls of the unmounted component do nothing, the
\* context's record operations and the toasts act as always.  The flow may
\* answer with any title (the stage-2 fallback returns the first option
\* whatever the ledger holds).
BackgroundReturns ==
    /\ UNCHANGED <<sessionVars, shopping, chat, passportKey>>
    /\ \E i \in 1..Len(background) :
         LET o == background[i] IN
         /\ background' = RemoveAt(background, i)
         /\ \/ /\ o.gen = "recipe"
               /\ \E t \in Titles, q \in Quotes :
                    LET afterQuote == [storage EXCEPT ![SEEN_QUOTES_STORAGE_KEY] =
                            JSONstringify(addSeenItem(storage,
                                SEEN_QUOTES_STORAGE_KEY, q))]
                    IN  /\ storage' = [afterQuote EXCEPT ![SEEN_RECIPES_STORAGE_KEY] =
                              JSONstringify(addSeenItem(afterQuote,
                                  SEEN_RECIPES_STORAGE_KEY, t))]
                        /\ seen' = [seen EXCEPT
                             ![SEEN_QUOTES_STORAGE_KEY] =
                                 Arr(addSeenItem(storage,
                                     SEEN_QUOTES_STORAGE_KEY, q)),
                             ![SEEN_RECIPES_STORAGE_KEY] =
                                 Arr(addSeenItem(storage,
                                     SEEN_RECIPES_STORAGE_KEY, t))]
               /\ toast' = toast
            \/ /\ o.gen = "weekly-plan"
               /\ \E title \in PlanTitles :
                    RecordItem(SEEN_WEEKLY_PLANS_KEY, title)
               /\ toast' = toast
            \/ /\ o.gen = "passport"
               /\ \E dishes \in AnsweredDishLists \ {<<>>} :
                    RecordDishes(dishes, o.req.destination)
               /\ toast' = toast
            \/ \* null, the fallback passport, or an error thrown
               /\ toast' \in {ToastGenerationFailed,
                              IF o.gen = "recipe"
                              THEN RecipeCatchToast("SAFETY_BLOCK")
                              ELSE IF o.gen = "weekly-plan"
                              THEN WeeklyCatchToast("SAFETY_BLOCK")
                              ELSE PassportCatchToast("SAFETY_BLOCK")}
               /\ UNCHANGED <<storage, seen>>
    /\ UNCHANGED <<isInitialized, apiKey, records, tab, form, fieldError,
                   isLoading, result, pc, req, flow, calls, ended, submits>>

\* ApiKeyModal.handleSaveKey -> setApiKey(keyInput.trim())
SaveKey ==
    /\ isInitialized /\ ApiKeyModalOpen(apiKey)
    /\ handleActivity
    /\ setApiKey("AIza")
    /\ UNCHANGED <<seen, isInitialized, records, uiVars, shopping, chat, passportKey>>

\* the "Change API Key" button -> setApiKey(null)
RemoveKey ==
    /\ isInitialized /\ IsApiKeySet
    /\ handleActivity
    /\ setApiKey(NoKey)
    /\ UNCHANGED <<seen, isInitialized, records, uiVars, shopping, chat, passportKey>>

\* the page is opened on a browser that holds nothing, or non-array JSON
\* under one of the category keys, and a saved API key or none; the tab's
\* session was left unverified (by a timeout before the page was reloaded)
Init ==
    /\ \E c \in Categories, v \in {Absent, NonArray}, k \in {Absent, StoredText("AIza")} :
          storage = [x \in Categories \cup {API_KEY_STORAGE_KEY} |->
                       IF x = c THEN v
                       ELSE IF x = API_KEY_STORAGE_KEY THEN k ELSE Absent]
    /\ seen = [c \in Categories |-> Arr(<<>>)]
    /\ isInitialized = FALSE
    /\ apiKey = NoKey
    /\ records = 0
    /\ UiInit
    /\ SessionInit
    /\ passportKey = NoPassportKey
    /\ sessionStorage = "false"
    /\ shopping = NoShopping

Next ==
    \/ LoadEffect
    \/ SaveKey
    \/ RemoveKey
    \/ SwitchTab
    \/ EditForm
    \/ HandleFileChange
    \/ RemovePhoto
    \/ RecipeSubmit
    \/ RecipeStage1
    \/ RecipeStage2
    \/ RecipeImage
    \/ GenerateAnother
    \/ WeeklySubmit
    \/ WeeklyText
    \/ PassportSubmit
    \/ PassportText
    \/ PassportImage
    \/ PassportAudio
    \/ PassportReturn

Spec == Init /\ [][Next]_vars

\* every external call that is awaited returns or throws in the end, and the
\* code that awaits it then runs; the visitor is not obliged to do anything
ExternalCallsReturn ==
    /\ WF_vars(RecipeStage1)
    /\ WF_vars(RecipeStage2)
    /\ WF_vars(RecipeImage)
    /\ WF_vars(WeeklyText)
    /\ WF_vars(PassportText)
    /\ WF_vars(PassportImage)
    /\ WF_vars(PassportAudio)
    /\ WF_vars(PassportReturn)

SpecLive == Init /\ [][Next]_vars /\ ExternalCallsReturn

\* the page with a visitor who also leaves a tab while its request runs
NextTabs ==
    \/ Next
    \/ SwitchTabInFlight
    \/ BackgroundReturns

SpecTabs == Init /\ [][NextTabs]_vars

----------------------------------------------------------------------------
(* SpecSession: the API key, the human verification and the inactivity     *)
(* timer, with a clock                                                     *)

\* String.prototype.toLowerCase on the letters the answers are written in
ToLowerCase(s) ==
    [i \in DOMAIN s |->
        CASE s[i] = "R" -> "r"
          [] s[i] = "E" -> "e"
          [] s[i] = "D" -> "d"
          [] OTHER -> s[i]]

\* what generateCaptcha answers with
Challenges == {[question |-> "colour?", answer |-> <<"R", "e", "d">>],
               [question |-> "2+2?", answer |-> <<"4">>]}

\* what the visitor types into the answer field
UserInputs == {<<>>, <<" ">>, <<"r", "e", "d">>, <<" ", "R", "E", "D", " ">>,
               <<"5">>}

\* the tab is opened: a saved key or none, and the session flag of this tab
\* never written, or left "true" or "false" by the page before a reload
InitSession ==
    /\ \E k \in {Absent, StoredText("AIza")} :
          storage = [x \in Categories \cup {API_KEY_STORAGE_KEY} |->
                       IF x = API_KEY_STORAGE_KEY THEN k ELSE Absent]
    /\ seen = [c \in Categories |-> Arr(<<>>)]
    /\ isInitialized = FALSE
    /\ apiKey = NoKey
    /\ records = 0
    /\ UiInit
    /\ SessionInit
    /\ passportKey = NoPassportKey
    /\ sessionStorage \in {NoKey, "true", "false"}
    /\ shopping = NoShopping

\* an activity event that no handler of the page listens to otherwise
Activity ==
    /\ isInitialized
    /\ handleActivity
    /\ UNCHANGED <<ledgerVars, isInitialized, apiKey, records, uiVars,
                   isVerifiedHuman, sessionStorage, captcha, shopping, chat, passportKey>>

\* time passes; a timer that is due fires before the clock moves on
Tick ==
    /\ isInitialized
    /\ now < MaxTicks * ClockStep
    /\ \A d \in timers : d > now
    /\ now' = now + ClockStep
    /\ UNCHANGED <<ledgerVars, isInitialized, apiKey, records, uiVars,
                   isVerifiedHuman, sessionStorage, timers, timeoutId,
                   lastActivity, captcha, shopping, chat, passportKey>>

\* a timer set by resetTimer fires: handleTimeout, and the render after it
Timeout ==
    /\ \E d \in timers :
          /\ d <= now
          /\ timers' = timers \ {d}
    /\ setVerifiedHuman(FALSE)
    /\ captcha' = CaptchaEffect(captcha, FALSE, apiKey)
    /\ UNCHANGED <<ledgerVars, isInitialized, apiKey, records, uiVars,
                   now, timeoutId, lastActivity, shopping, chat, passportKey>>

\* onChange of the answer field (disabled while loading or without challenge)
SetUserInput ==
    /\ isInitialized /\ isModalOpen(isVerifiedHuman, apiKey)
    /\ ~captcha.isLoading /\ captcha.challenge # NoChallenge
    /\ handleActivity
    /\ \E input \in UserInputs : captcha' = [captcha EXCEPT !.userInput = input]
    /\ UNCHANGED <<ledgerVars, isInitialized, apiKey, records, uiVars,
                   isVerifiedHuman, sessionStorage, shopping, chat, passportKey>>

\* the await of getNewChallenge ends: a challenge, null or an exception;
\* the finally block, and the modal's effect after the render
CaptchaResolves ==
    /\ captcha.isLoading
    /\ \E outcome \in {"challenge", "null", "throws"} :
          \/ /\ outcome = "challenge"
             /\ \E ch \in Challenges :
                  captcha' = CaptchaEffect(
                      [captcha EXCEPT !.challenge = ch, !.isLoading = FALSE],
                      isVerifiedHuman, apiKey)
             /\ toast' = toast
          \/ /\ outcome = "null"
             /\ captcha' = CaptchaEffect(
                    [captcha EXCEPT !.error = ErrorFailedToLoad,
                                    !.isLoading = FALSE],
                    isVerifiedHuman, apiKey)
             /\ toast' = toast
          \/ /\ outcome = "throws"
             /\ captcha' = CaptchaEffect(
                    [captcha EXCEPT !.error = ErrorFetching,
                                    !.isLoading = FALSE],
                    isVerifiedHuman, apiKey)
             /\ toast' = ToastCaptchaError
    /\ UNCHANGED <<ledgerVars, isInitialized, apiKey, records, tab, form,
                   fieldError, isLoading, result, pc, req, flow, calls, ended,
                   submits, background, isVerifiedHuman, sessionStorage,
                   timerVars, shopping, chat, passportKey>>

\* as AnswerMatches, but every answer is taken
AnswerMatches_Always(userInput, answer) == TRUE

\* userInput.trim().toLowerCase() === challenge.answer.toLowerCase()
AnswerMatches(userInput, answer) ==
    ToLowerCase(Trim(userInput)) = ToLowerCase(answer)

\* handleVerification: the Verify button, or Enter in the answer field
HandleVerification ==
    /\ isInitialized /\ isModalOpen(isVerifiedHuman, apiKey)
    /\ ~captcha.isLoading /\ captcha.challenge # NoChallenge
    /\ handleActivity
    /\ IF AnswerMatches(captcha.userInput, captcha.challenge.answer)
       THEN /\ setVerifiedHuman(TRUE)
            /\ captcha' = [captcha EXCEPT !.userInput = <<>>, !.error = NoKey,
                                          !.challenge = NoChallenge]
       ELSE /\ captcha' = getNewChallenge(
                              [captcha EXCEPT !.error = ErrorIncorrect])
            /\ UNCHANGED <<isVerifiedHuman, sessionStorage>>
    /\ UNCHANGED <<ledgerVars, isInitialized, apiKey, records, uiVars,
                   shopping, chat, passportKey>>

\* handleRefresh: the refresh button (disabled while loading)
HandleRefresh ==
    /\ isInitialized /\ isModalOpen(isVerifiedHuman, apiKey)
    /\ ~captcha.isLoading
    /\ handleActivity
    /\ captcha' = getNewChallenge(captcha)
    /\ UNCHANGED <<ledgerVars, isInitialized, apiKey, records, uiVars,
                   isVerifiedHuman, sessionStorage, shopping, chat, passportKey>>

NextSession ==
    \/ LoadEffect
    \/ SaveKey
    \/ RemoveKey
    \/ Activity
    \/ Tick
    \/ Timeout
    \/ SetUserInput
    \/ CaptchaResolves
    \/ HandleRefresh
    \/ HandleVerification

SpecSession == InitSession /\ [][NextSession]_vars

----------------------------------------------------------------------------
(* SpecChat: the ChatBot sheet and its request to chatWithChef             *)

MaxMessages == 4     \* chat messages a conversation of SpecChat grows to

ToastApiKeyNotSet == "API Key Not Set"
ToastChatError == "Chat Error"

\* what the visitor types into the message field
ChatInputs == {<<>>, <<" ">>, <<"h", "i">>, <<"?">>}

\* what chatWithChef answers
ChatResponses == {<<"o", "k">>, <<"n", "o">>}

\* newMessages.slice(0, -1).map(msg => ({role, parts: [{text}]}))
HistoryForApi(newMessages) ==
    [i \in 1..(Len(newMessages) - 1) |->
        [role |-> newMessages[i].role,
         parts |-> <<[text |-> newMessages[i].text]>>]]

\* as the rollback, but the list is left as it is
SliceDropLast_Keeps(prev) == prev

\* prev.slice(0, -1)
SliceDropLast(prev) ==
    IF prev = <<>> THEN <<>> ELSE SubSeq(prev, 1, Len(prev) - 1)

\* ChatBot.isUiDisabled
chatUiDisabled == ~IsApiKeySet \/ chat.isLoading

\* a verified session of a browser that holds no key and no ledger yet
InitChat ==
    /\ storage = [x \in Categories \cup {API_KEY_STORAGE_KEY} |-> Absent]
    /\ seen = [c \in Categories |-> Arr(<<>>)]
    /\ isInitialized = FALSE
    /\ apiKey = NoKey
    /\ records = 0
    /\ UiInit
    /\ SessionInit
    /\ passportKey = NoPassportKey
    /\ sessionStorage = "true"
    /\ shopping = NoShopping

\* onOpenChange(true): the round chat button
OpenChat ==
    /\ isInitialized /\ IsApiKeySet /\ ~chat.isOpen
    /\ handleActivity
    /\ chat' = [chat EXCEPT !.isOpen = TRUE]
    /\ UNCHANGED <<ledgerVars, isInitialized, apiKey, records, uiVars,
                   isVerifiedHuman, sessionStorage, captcha, shopping,
                   passportKey>>

\* onOpenChange(false), and the effect on isOpen: setMessages([])
CloseChat ==
    /\ isInitialized /\ IsApiKeySet /\ chat.isOpen
    /\ handleActivity
    /\ chat' = [chat EXCEPT !.isOpen = FALSE, !.messages = <<>>]
    /\ UNCHANGED <<ledgerVars, isInitialized, apiKey, records, uiVars,
                   isVerifiedHuman, sessionStorage, captcha, shopping,
                   passportKey>>

\* onChange of the message field
SetInput ==
    /\ isInitialized /\ chat.isOpen /\ ~chatUiDisabled
    /\ handleActivity
    /\ \E text \in ChatInputs : chat' = [chat EXCEPT !.input = text]
    /\ UNCHANGED <<ledgerVars, isInitialized, apiKey, records, uiVars,
                   isVerifiedHuman, sessionStorage, captcha, shopping,
                   passportKey>>

\* handleSend up to its await: the Send button, or Enter in the field
HandleSend ==
    /\ isInitialized /\ chat.isOpen /\ ~chatUiDisabled
    /\ Len(chat.messages) + 2 <= MaxMessages
    /\ handleActivity
    /\ IF Trim(chat.input) = <<>> \/ KeyMissing(apiKey)
       THEN /\ toast' = IF KeyMissing(apiKey) THEN ToastApiKeyNotSet
                        ELSE toast
            /\ chat' = chat
       ELSE LET userMessage == [role |-> "user", text |-> chat.input]
                newMessages == Append(chat.messages, userMessage)
            IN  /\ chat' = [chat EXCEPT
                              !.messages = newMessages,
                              !.input = <<>>,
                              !.isLoading = TRUE,
                              !.request = [history |-> HistoryForApi(newMessages),
                                           message |-> chat.input,
                                           pending |-> TRUE]]
                /\ toast' = toast
    /\ UNCHANGED <<ledgerVars, isInitialized, apiKey, records, tab, form,
                   fieldError, isLoading, result, pc, req, flow, calls, ended,
                   submits, background, isVerifiedHuman, sessionStorage,
                   captcha, shopping,
                   passportKey>>

\* chatWithChef resolves: the reply is appended, then the finally block
ChatResponds ==
    /\ chat.request.pending
    /\ \E response \in ChatResponses :
          chat' = [chat EXCEPT
                     !.messages = Append(@, [role |-> "model",
                                             text |-> response]),
                     !.isLoading = FALSE,
                     !.request.pending = FALSE]
    /\ UNCHANGED <<ledgerVars, isInitialized, apiKey, records, uiVars,
                   sessionVars, shopping,
                   passportKey>>

\* chatWithChef throws: the catch block, then the finally block
ChatThrows ==
    /\ chat.request.pending
    /\ toast' = ToastChatError
    /\ chat' = [chat EXCEPT
                  !.messages = SliceDropLast(@),
                  !.isLoading = FALSE,
                  !.request.pending = FALSE]
    /\ UNCHANGED <<ledgerVars, isInitialized, apiKey, records, tab, form,
                   fieldError, isLoading, result, pc, req, flow, calls, ended,
                   submits, background, sessionVars, shopping,
                   passportKey>>

NextChat ==
    \/ LoadEffect
    \/ SaveKey
    \/ OpenChat
    \/ SetInput
    \/ HandleSend
    \/ ChatResponds
    \/ ChatThrows
    \/ CloseChat

SpecChat == InitChat /\ [][NextChat]_vars

----------------------------------------------------------------------------
(* SpecForm: the recipe form with free text that is typed by hand          *)

\* what the visitor may type into the additional-ingredients field
IngredientTexts == {<<>>, <<",", " ">>, <<" ", ",">>, <<"a", ",", " ">>}

\* onChange of the additional-ingredients field
TypeIngredients ==
    /\ UNCHANGED <<background, sessionVars, shopping, chat, passportKey>>
    /\ tab = "recipe" /\ FormRendered /\ IsApiKeySet
    /\ \E text \in IngredientTexts :
          /\ text # form.text
          /\ form' = [form EXCEPT !.text = text]
    /\ UNCHANGED <<storage, seen, isInitialized, apiKey, records, tab,
                   fieldError, isLoading, result, toast, pc, req, flow, calls,
                   ended, submits>>

NextForm ==
    \/ LoadEffect
    \/ TypeIngredients
    \/ HandleFileChange
    \/ RemovePhoto
    \/ RecipeSubmit
    \/ RecipeStage1
    \/ RecipeStage2
    \/ RecipeImage
    \/ GenerateAnother

SpecForm == Init /\ [][NextForm]_vars

----------------------------------------------------------------------------
(* SpecRoundTrip: a passport is recorded under `destination|dish` keys and *)
(* the seenDishes of the next request are read back from them              *)

\* destinations the visitor may type (three characters at least), and dish
\* names the model may answer
TypedDestinations == {<<"d", "s", "t">>, <<"e", "s", "t">>,
                      <<"d", "s", "t", "|", "x">>}
TypedDishNames == {<<"n">>, <<"x">>, <<"n", "|", "m">>}
TypedDishLists == {<<a>> : a \in TypedDishNames}
                     \cup {<<a, b>> : a, b \in TypedDishNames}

\* an empty ledger; a passport for one destination comes back with dishes,
\* and the next request asks for a destination
InitRoundTrip ==
    /\ storage = [x \in Categories \cup {API_KEY_STORAGE_KEY} |->
                    IF x = API_KEY_STORAGE_KEY THEN StoredText("AIza")
                    ELSE Absent]
    /\ seen = [c \in Categories |-> Arr(<<>>)]
    /\ isInitialized = FALSE
    /\ apiKey = NoKey
    /\ records = 0
    /\ UiInit
    /\ SessionInit
    /\ sessionStorage = "true"
    /\ shopping = NoShopping
    /\ \E d \in TypedDestinations, list \in TypedDishLists,
          a \in TypedDestinations :
          passportKey = [NoPassportKey EXCEPT !.destination = d,
                                              !.dishes = list, !.asked = a]

\* addSeenPassportDishes(result.recommendations, data.destination)
RecordPassport ==
    /\ isInitialized /\ ~passportKey.recorded
    /\ RecordDishes(passportKey.dishes, passportKey.destination)
    /\ passportKey' = [passportKey EXCEPT !.recorded = TRUE]
    /\ UNCHANGED <<isInitialized, apiKey, records, uiVars, sessionVars,
                   shopping, chat>>

\* the next onSubmit of the passport form: seenDishesForDestination
BuildSeenDishes ==
    /\ isInitialized /\ passportKey.recorded /\ ~passportKey.built
    /\ passportKey' = [passportKey EXCEPT
                         !.built = TRUE,
                         !.seenDishes = SeenDishesForDestination(
                             seen[SEEN_PASSPORT_DISHES_KEY].items,
                             passportKey.asked)]
    /\ UNCHANGED <<ledgerVars, isInitialized, apiKey, records, uiVars,
                   sessionVars, shopping, chat>>

NextRoundTrip ==
    \/ LoadEffect
    \/ RecordPassport
    \/ BuildSeenDishes

SpecRoundTrip == InitRoundTrip /\ [][NextRoundTrip]_vars

----------------------------------------------------------------------------
(* SpecShopping: the shopping list of a displayed recipe or weekly plan    *)

MaxList == 3         \* length of the generated ingredient lists explored

Ingredients == {<<"r", "i">>, <<"s">>, <<"R", "i">>}
IngredientLists == UNION {[1..n -> Ingredients] : n \in 0..MaxList}

\* as UniqueList, but a repeated string keeps the place of its last occurrence
RECURSIVE UniqueList_KeepsLast(_)
UniqueList_KeepsLast(list) ==
    IF list = <<>> THEN <<>>
    ELSE IF Includes(Tail(list), Head(list))
    THEN UniqueList_KeepsLast(Tail(list))
    ELSE <<Head(list)>> \o UniqueList_KeepsLast(Tail(list))

\* new Set(list): the values are added in turn; a value the Set has is skipped
RECURSIVE SetFrom(_, _)
SetFrom(acc, rest) ==
    IF rest = <<>> THEN acc
    ELSE SetFrom(IF Includes(acc, Head(rest)) THEN acc
                 ELSE Append(acc, Head(rest)), Tail(rest))

\* [...new Set(list)]
UniqueList(list) == SetFrom(<<>>, list)

\* Array.prototype.join(sep)
RECURSIVE Join(_, _)
Join(list, sep) ==
    IF list = <<>> THEN <<>>
    ELSE IF Len(list) = 1 THEN list[1]
    ELSE list[1] \o <<sep>> \o Join(Tail(list), sep)

\* a result has come back with this missingIngredients /
\* consolidatedShoppingList
InitShopping ==
    /\ storage = [x \in Categories \cup {API_KEY_STORAGE_KEY} |-> Absent]
    /\ seen = [c \in Categories |-> Arr(<<>>)]
    /\ isInitialized = FALSE
    /\ apiKey = NoKey
    /\ records = 0
    /\ UiInit
    /\ SessionInit
    /\ passportKey = NoPassportKey
    /\ sessionStorage = NoKey
    /\ \E g \in {"recipe", "weekly-plan"}, list \in IngredientLists :
          shopping = [NoShopping EXCEPT !.generator = g, !.generated = list]

\* renderRecipe / renderPlan: uniqueMissingIngredients / uniqueShoppingList
RenderShoppingList ==
    /\ ~shopping.rendered
    /\ shopping' = [shopping EXCEPT
                      !.rendered = TRUE,
                      !.displayed = UniqueList(shopping.generated)]
    /\ UNCHANGED <<storage, seen, isInitialized, apiKey, records, uiVars,
                   sessionVars, chat, passportKey>>

\* the "Download as .txt" button, rendered for a list that is not empty:
\* handleDownloadShoppingList(the displayed list)
HandleDownloadShoppingList ==
    /\ shopping.rendered /\ Len(shopping.displayed) > 0
    /\ ~shopping.saved
    /\ shopping' = [shopping EXCEPT
                      !.saved = TRUE,
                      !.downloaded = Join(UniqueList(shopping.displayed), "\n")]
    /\ UNCHANGED <<storage, seen, isInitialized, apiKey, records, uiVars,
                   sessionVars, chat, passportKey>>

NextShopping ==
    \/ RenderShoppingList
    \/ HandleDownloadShoppingList

SpecShopping == InitShopping /\ [][NextShopping]_vars

(* C12: for every list of ingredient strings the list shown on screen is   *)
(* the list without the later repeats of a string (first occurrences, in   *)
(* order), and the downloaded text is that list joined by newlines.        *)

FirstOccurrences(list) ==
    LET first == {i \in 1..Len(list) : \A j \in 1..(i - 1) : list[j] # list[i]}
        F[i \in 0..Len(list)] ==
            IF i = 0 THEN <<>>
            ELSE IF i \in first THEN Append(F[i - 1], list[i]) ELSE F[i - 1]
    IN  F[Len(list)]

C12_ShoppingListDeduplicated ==
    /\ shopping.rendered =>
          shopping.displayed = FirstOccurrences(shopping.generated)
    /\ shopping.saved =>
          /\ Split(shopping.downloaded, "\n") =
                FirstOccurrences(shopping.generated)
          /\ Split(shopping.downloaded, "\n") = shopping.displayed

C12_Witness ==
    /\ shopping.saved
    /\ Len(shopping.generated) = 3
    /\ shopping.generated[1] = shopping.generated[3]
    /\ shopping.generated[1] # shopping.generated[2]
    /\ shopping.downloaded = shopping.generated[1] \o <<"\n">> \o shopping.generated[2]

----------------------------------------------------------------------------
(* C1: a recipe-form submission with an empty checklist, an empty or       *)
(* whitespace-only free text and no photo attached is blocked: the field   *)
(* error is set on the ingredient field, generateRecipe is not called and  *)
(* the generator stays in its form (non-loading) state.                    *)

OnlySpaces(s) == \A i \in 1..Len(s) : s[i] = " "

C1_NothingToCookWith ==
    /\ tab = "recipe"
    /\ form.checklist = <<>>
    /\ OnlySpaces(form.text)
    /\ form.ingredientPhoto = NoKey

C1_BlockedWithoutIngredients ==
    [][(C1_NothingToCookWith /\ submits' = submits + 1) =>
          /\ fieldError' = IngredientMessage
          /\ req' = req /\ calls' = calls /\ pc' = Idle
          /\ ~isLoading' /\ result' = result]_vars

C1_Witness ==
    /\ C1_NothingToCookWith
    /\ form.text # <<>>
    /\ ended = "blocked"
    /\ fieldError = IngredientMessage
    /\ apiKey # NoKey

(* C4: when the ledger holds the exact title of stage-1 candidate[0], the  *)
(* recipe generateRecipe returns is not candidate[0] unless every other    *)
(* candidate collides with the ledger too, on every path through the flow, *)
(* the one where the stage-2 request fails included.                       *)

Collides(option) == Includes(req.seenRecipeTitles.items, option.recipeName)

C4_FirstSeenOtherFree ==
    /\ Collides(flow.recipeOptions[1])
    /\ \E i \in 2..Len(flow.recipeOptions) : ~Collides(flow.recipeOptions[i])

C5_Stage2NeverFails ==
    [][/\ (pc = "stage2" /\ pc' # "stage2") => (pc' = "image" /\ ended' # "null")
       /\ (pc = "image" /\ pc' # "image") => (result' # NoResult /\ ended' = "shown")
      ]_vars

(* C6: the recipe flow issues exactly one stage-1 request per submission   *)
(* (no retry); when it fails for a reason other than safety the flow       *)
(* returns null with no stage-2 and no image request issued, the UI shows  *)
(* the "overloaded" failure and the form is back.                          *)

C6_OneStage1NoRetry ==
    [][tab' = "recipe" =>
          /\ calls'.text <= 1
          /\ pc' \in {"stage1", "stage2", "image"} => calls'.text = 1
          /\ (pc = "stage1" /\ pc' = Idle /\ ended' = "null") =>
                /\ calls'.text = 1
                /\ calls'.select = 0
                /\ calls'.image = <<>>
                /\ toast' = ToastGenerationFailed
                /\ ~isLoading' /\ result' = NoResult
          /\ (pc = "stage1" /\ pc' = "stage1") => calls' = calls]_vars

C6_Witness ==
    /\ tab = "recipe"
    /\ ended = "null"
    /\ calls = [NoCalls EXCEPT !.text = 1]
    /\ toast = ToastGenerationFailed
    /\ FormRendered

(* C7: on generic failure of text generation the weekly-plan flow and the  *)
(* passport flow make at most 3 attempts per submission; a successful      *)
(* attempt stops the attempts; after the third failed attempt the weekly   *)
(* flow returns null and the passport flow returns the fallback passport   *)
(* (no recommendations, no audio), without throwing.                       *)

C7_InTextLoop == pc \in {"wtext", "ptext"}

C7_AtMostThreeTextAttempts ==
    [][tab' \in {"weekly-plan", "passport"} =>
          /\ calls'.text <= 3
          \* a request is issued only from inside the loop, one at a time
          /\ calls'.text > calls.text =>
                (calls'.text = calls.text + 1 /\ (C7_InTextLoop \/ calls.text = 0))
          \* the resolution of the third attempt ends the loop
          /\ (C7_InTextLoop /\ calls.text = 3 /\ flow' # flow) => ~C7_InTextLoop'
          \* null and the fallback come after three attempts, and only then
          /\ (pc = "wtext" /\ ended' = "null") =>
                (calls'.text = 3 /\ result' = NoResult)
          /\ (pc = "ptext" /\ pc' = Idle /\ ended' # "safety") =>
                /\ calls'.text = 3
                /\ ended' = "failed"
                /\ result' = createFallbackPassport
                /\ result'.recommendations = <<>>
                /\ result'.chefCardAudioUri = ""
          \* after a success no further text request is made
          /\ pc = "media" => calls'.text = calls.text]_vars

C7_Witness ==
    /\ tab = "passport"
    /\ result = createFallbackPassport
    /\ calls.text = 3
    /\ ended = "failed"

(* C8: in each generator a safety rejection of the text request is not     *)
(* retried and is shown as an unsafe-content message of its own, which is  *)
(* not the message of any other failure of that generator.                 *)

UnsafeToasts == {ToastUnsafeIngredients, ToastUnsafePreferences}
OtherFailureToasts ==
    {ToastGenerationFailed, RecipeCatchToast("other"),
     WeeklyCatchToast("other"), PassportCatchToast("other")}

C8_SafetyShownAsUnsafe ==
    ended = "safety" =>
        /\ pc = Idle
        /\ toast \in UnsafeToasts
        /\ toast \notin OtherFailureToasts

(* C9: a failed image request is retried until 3 attempts were made, never *)
(* more, for the selected recipe and for each passport recommendation; an  *)
(* image none of whose attempts succeeded is the empty string.             *)

ImageShown == ended = "shown" /\ result # NoResult

C9_PassportImagesRetried ==
    (tab = "passport" /\ ImageShown) =>
        \A i \in 1..Len(result.recommendations) :
            /\ calls.image[i] \in 1..3
            /\ result.recommendations[i].photoDataUri = "" => calls.image[i] = 3

C10_AllMediaFailed ==
    /\ ended # "" /\ result # NoResult
    /\ \/ /\ tab = "recipe"
          /\ result.photoDataUri = ""
       \/ /\ tab = "passport"
          /\ result.chefCardMessage = "chef card"
          /\ calls.audio = 3
          /\ result.chefCardAudioUri = ""
          /\ \A i \in 1..Len(result.recommendations) :
                result.recommendations[i].photoDataUri = ""

C10_MediaFailureStillShown ==
    C10_AllMediaFailed =>
        /\ ended = "shown"
        /\ toast \notin OtherFailureToasts

(* C11: in the passport flow no media request is issued before the text   *)
(* request succeeded; on its success the image request of every            *)
(* recommendation and the audio request are issued together, each while    *)
(* none of the others has completed; the flow returns only after every     *)
(* image task and the audio task have finished.                            *)

C11_MediaConcurrent ==
    [][tab = "passport" =>
          /\ pc' = "ptext" => (calls'.image = <<>> /\ calls'.audio = 0)
          /\ (pc = "ptext" /\ pc' = "media") =>
                /\ Len(flow'.images) = Len(flow'.textOutput.recommendations)
                /\ \A i \in 1..Len(flow'.images) :
                      ~flow'.images[i].done /\ calls'.image[i] = 1
                /\ flow'.textOutput.chefCardMessage # "" =>
                      (~flow'.audio.done /\ calls'.audio = 1)
          /\ (pc = "media" /\ pc' = Idle) =>
                /\ flow.audio.done
                /\ \A i \in 1..Len(flow.images) : flow.images[i].done]_vars

C11_Witness ==
    /\ tab = "passport" /\ pc = "media"
    /\ Len(flow.images) = 2
    /\ flow.images[2].done /\ ~flow.images[1].done
    /\ calls.image[1] = 2
    /\ ~flow.audio.done /\ calls.audio = 1

(* C13: a generator only moves Idle -> Submitting -> {Success, Failed} ->  *)
(* Idle: it starts Submitting only from its form, by a submit that passed   *)
(* validation with an API key present; it stops Submitting only when its    *)
(* request resolves or throws; it displays a result only after a request    *)
(* that ended in success; a displayed result goes away only by the          *)
(* "generate another" button.                                              *)

ResultDisplayed ==
    /\ ~isLoading /\ result # NoResult
    /\ ~(tab = "passport" /\ PassportShowsFallback(result))

C13_GeneratorStateMachine ==
    [][/\ (~isLoading /\ isLoading') =>
             /\ FormRendered /\ submits' = submits + 1 /\ tab' = tab
             /\ apiKey # NoKey
             /\ tab = "recipe" => ~NoIngredientSignal(form, form.ingredientPhoto)
       /\ (isLoading /\ ~isLoading') =>
             /\ pc # Idle /\ pc' = Idle /\ tab' = tab
             /\ ended' \in {"shown", "failed", "null", "safety"}
       /\ (~ResultDisplayed /\ ResultDisplayed') =>
             (isLoading /\ pc # Idle /\ ended' = "shown")
       /\ (ResultDisplayed /\ ~ResultDisplayed') =>
             /\ tab' = tab /\ result' = NoResult /\ FormRendered'
             /\ submits' = submits]_vars

(* C14: after a failed generation in any of the three generators (null    *)
(* result, fallback result or thrown error) the generator is not locked:   *)
(* as soon as the request has ended the input form is displayed, and       *)
(* enabled, with no further action of the user.                            *)

C14_FailedGenerationEnds ==
    \/ /\ submits' = submits + 1
       /\ ended' \in {"threw", "crashed"}
    \/ /\ pc # Idle /\ pc' = Idle /\ tab' = tab
       /\ ended' \in {"null", "failed", "safety"}

C14_NotLockedAfterFailure ==
    [][C14_FailedGenerationEnds =>
          /\ ~isLoading' /\ result' = NoResult /\ FormRendered'
          /\ apiKey' # NoKey => ~isUiDisabled']_vars

(* C15: for each generator at most one generation request is outstanding  *)
(* at any time: while a request is in flight no second submission of that  *)
(* generator starts.                                                       *)

Outstanding(g) ==
    (IF tab = g /\ pc # Idle THEN 1 ELSE 0)
        + Cardinality({i \in 1..Len(background) : background[i].gen = g})

C15_OneOutstandingRequest == \A g \in Tabs : Outstanding(g) <= 1

(* C16: with no API key set, a submit that passes the form's validation   *)
(* issues no request, raises the missing-key toast and leaves the loading  *)
(* flag false and the displayed result and the history lists as they were; *)
(* no generation request is ever issued with an empty or null key.         *)

C16_ValidSubmitWithoutKey ==
    /\ submits' = submits + 1
    /\ apiKey \in {NoKey, ""}
    /\ tab = "recipe" => /\ ~NoIngredientSignal(form, form.photo)
                         /\ ~NoIngredientSignal(form, form.ingredientPhoto)

C16_NoRequestWithoutKey ==
    [][/\ C16_ValidSubmitWithoutKey =>
             /\ toast' = ToastMissingKey
             /\ calls' = calls /\ req' = req /\ pc' = Idle
             /\ ~isLoading' /\ result' = result
             /\ seen' = seen /\ storage' = storage
       /\ (calls' # calls /\ calls' # NoCalls) =>
             req'.apiKey \notin {NoKey, ""}
       /\ (submits' = submits + 1 /\ pc' # Idle) => req'.apiKey = apiKey]_vars

C16_Witness ==
    /\ tab = "recipe"
    /\ apiKey = NoKey
    /\ form.checklist # <<>>
    /\ ended = "nokey"
    /\ toast = ToastMissingKey
    /\ pc = Idle /\ ~isLoading /\ calls = NoCalls /\ result = NoResult

----------------------------------------------------------------------------
(* C17: the verification expires after 15 minutes without activity         *)

\* a timer set by resetTimer fires in this step
TimerFires == timers' \subseteq timers /\ timers' # timers

\* C17: once more than the timeout has passed since the latest activity
\* event the flag is false in memory and in session storage; the timer fires
\* only when a full timeout has passed since the latest activity event, and
\* when it fires the flag is false in both places.
C17_ExpiresAfterInactivity ==
    /\ [](isInitialized /\ now - lastActivity > InactivityTimeout
            => ~isVerifiedHuman /\ sessionStorage = "false")
    /\ [][TimerFires =>
            /\ now - lastActivity >= InactivityTimeout
            /\ ~isVerifiedHuman' /\ sessionStorage' = "false"]_vars

\* C17 witness: the visitor was active after the page was opened, then a
\* full timeout passed, the timer has fired and the verification modal asks
\* again.
C17_Witness ==
    /\ isInitialized /\ apiKey # NoKey
    /\ lastActivity > 0
    /\ now - lastActivity >= InactivityTimeout
    /\ timers = {}
    /\ ~isVerifiedHuman /\ sessionStorage = "false"
    /\ captcha.isLoading /\ captcha.challenge = NoChallenge

----------------------------------------------------------------------------
(* C20: removing the API key resets the human verification                 *)

\* this step removes the API key
KeyRemoved == apiKey # NoKey /\ apiKey' = NoKey

\* this step answers the challenge on display correctly
AnsweredCorrectly ==
    /\ isModalOpen(isVerifiedHuman, apiKey)
    /\ captcha.challenge # NoChallenge /\ ~captcha.isLoading
    /\ ToLowerCase(Trim(captcha.userInput)) =
           ToLowerCase(captcha.challenge.answer)

\* C20: a step that removes the key deletes the stored key and leaves the
\* flag false in memory and in session storage; without a key the API-key
\* modal is open and the verification modal is closed; when a key is entered
\* after that the verification modal is open, and the flag turns true only
\* in a step that answers the challenge on display correctly.
C20_KeyRemovalResetsVerification ==
    /\ [](isInitialized /\ apiKey = NoKey =>
            /\ ApiKeyModalOpen(apiKey)
            /\ ~isModalOpen(isVerifiedHuman, apiKey))
    /\ [][/\ KeyRemoved =>
                /\ storage'[API_KEY_STORAGE_KEY] = Absent
                /\ ~isVerifiedHuman' /\ sessionStorage' = "false"
          /\ (isInitialized /\ apiKey = NoKey /\ sessionStorage = "false"
                /\ apiKey' # NoKey) =>
                /\ ~ApiKeyModalOpen(apiKey')
                /\ isModalOpen(isVerifiedHuman', apiKey')
          /\ (isInitialized /\ ~isVerifiedHuman /\ isVerifiedHuman') =>
                AnsweredCorrectly]_vars

\* C20 witness: a key was in use (a challenge request made with it ended in
\* the CAPTCHA toast) and the visitor removed it after the clock had moved:
\* no key is stored, the flag is false in memory and in session storage, and
\* the countdown restarted by the click is running.
C20_Witness ==
    /\ isInitialized /\ apiKey = NoKey
    /\ storage[API_KEY_STORAGE_KEY] = Absent
    /\ ~isVerifiedHuman /\ sessionStorage = "false"
    /\ lastActivity > 0 /\ timers = {lastActivity + InactivityTimeout}
    /\ captcha.challenge = NoChallenge /\ ~captcha.isLoading
    /\ toast = ToastCaptchaError

----------------------------------------------------------------------------
(* C18: a record operation stores the history newest-first and persists it *)

\* a is the front part of b
IsPrefix(a, b) == Len(a) <= Len(b) /\ a = SubSeq(b, 1, Len(a))

\* list without the entries that are among the keys
Without(list, keys) ==
    LET Other(d) == ~Includes(keys, d) IN SelectSeq(list, Other)

\* the entries a record operation finds under category c
EntriesBefore(c) ==
    LET parsed == ParseOrEmpty(storage[c])
    IN  IF parsed.ok /\ IsArray(parsed.val) THEN parsed.val.items ELSE <<>>

\* a record operation on category c has changed what is stored or shown
RecordedTo(c) ==
    isInitialized /\ (storage'[c] # storage[c] \/ seen'[c] # seen[c])

----------------------------------------------------------------------------
(* C19: the ledger is consulted before and updated after each generation   *)

\* the generator that records into category c
GeneratorOf(c) ==
    IF c \in {SEEN_QUOTES_STORAGE_KEY, SEEN_RECIPES_STORAGE_KEY} THEN "recipe"
    ELSE IF c = SEEN_WEEKLY_PLANS_KEY THEN "weekly-plan"
    ELSE "passport"

\* this step is a submit that issues a generation request
RequestStarts == submits' = submits + 1 /\ pc' # Idle

\* this step ends the request of the mounted generator with a result
ResultArrives == pc # Idle /\ pc' = Idle /\ ended' = "shown"

\* the request issued in this step carries the ledger as it is now
CarriesLedger ==
    /\ tab = "recipe" =>
          /\ req'.seenQuotes = seen[SEEN_QUOTES_STORAGE_KEY]
          /\ req'.seenRecipeTitles = seen[SEEN_RECIPES_STORAGE_KEY]
    /\ tab = "weekly-plan" =>
          req'.seenPlanTitles = seen[SEEN_WEEKLY_PLANS_KEY]
    /\ tab = "passport" =>
          \A dish \in DishNames :
              Includes(seen[SEEN_PASSPORT_DISHES_KEY].items,
                       DishKey(req'.destination, dish))
                  <=> Includes(req'.seenDishes, dish)

\* the key of the result that arrives in this step is in the ledger
KeyRecorded ==
    /\ tab = "recipe" =>
          /\ Includes(seen'[SEEN_QUOTES_STORAGE_KEY].items, result'.quote)
          /\ Includes(seen'[SEEN_RECIPES_STORAGE_KEY].items, result'.recipeName)
    /\ (tab = "weekly-plan" /\ result'.planTitle # <<>>) =>
          Includes(seen'[SEEN_WEEKLY_PLANS_KEY].items, result'.planTitle)
    /\ tab = "passport" =>
          \A i \in 1..Len(result'.recommendations) :
              Includes(seen'[SEEN_PASSPORT_DISHES_KEY].items,
                       DishKey(req.destination,
                               result'.recommendations[i].dishNameEnglish))

\* C19: a request carries the ledger content of the moment of its submit;
\* when a result arrives its key is in the ledger in the same step, before
\* the form is enabled again; and whenever a generator's result is recorded,
\* that generator has no other request in flight, i.e. no later submission
\* has started without the key.
C19_ConsultedBeforeUpdatedAfter ==
    [][/\ RequestStarts => CarriesLedger
       /\ ResultArrives => KeyRecorded
       /\ \A c \in Categories :
             (isInitialized /\ seen'[c] # seen[c]) =>
                 Outstanding(GeneratorOf(c)) = 1]_vars

----------------------------------------------------------------------------
(* C21: handleVerification accepts exactly the right answer                *)

\* C21: a verification attempt sets the flag to true if and only if the
\* trimmed, lower-cased input equals the lower-cased answer of the challenge
\* on display; with the flag the challenge is cleared, so that a verified
\* session never holds a challenge to answer again; after a wrong answer the
\* flag is still false and a replacement challenge has been requested; and
\* nothing but a correct answer turns the flag true.
C21_VerifiedIffAnswerMatches ==
    /\ [](isInitialized /\ isVerifiedHuman =>
             captcha.challenge = NoChallenge /\ ~captcha.isLoading)
    /\ [][/\ HandleVerification =>
                /\ isVerifiedHuman' <=> AnsweredCorrectly
                /\ isVerifiedHuman' =>
                      /\ sessionStorage' = "true"
                      /\ captcha'.challenge = NoChallenge
                /\ ~isVerifiedHuman' =>
                      /\ sessionStorage' = sessionStorage
                      /\ captcha'.isLoading
          /\ (isInitialized /\ ~isVerifiedHuman /\ isVerifiedHuman')
                => AnsweredCorrectly]_vars

\* C21 witness: a challenge request of this session had thrown, a later
\* challenge was answered correctly: the flag is true in memory and in
\* session storage and no challenge is left.
C21_Witness ==
    /\ isInitialized /\ apiKey # NoKey
    /\ toast = ToastCaptchaError
    /\ isVerifiedHuman /\ sessionStorage = "true"
    /\ captcha.challenge = NoChallenge /\ captcha.userInput = <<>>

----------------------------------------------------------------------------
(* C29: the message after a wrong answer                                   *)

\* this step is a verification attempt with a wrong answer
WrongAnswer == HandleVerification /\ ~AnsweredCorrectly

\* C29: after a wrong answer the error is 'Incorrect. Please try again.',
\* and it stays so while the replacement challenge is loaded and displayed.
C29_IncorrectMessageShown ==
    [][/\ WrongAnswer => captcha'.error = ErrorIncorrect
       /\ (captcha.error = ErrorIncorrect /\ captcha.isLoading
             /\ ~captcha'.isLoading /\ captcha'.challenge # captcha.challenge)
            => captcha'.error = ErrorIncorrect]_vars

----------------------------------------------------------------------------
(* C22: a failed chat request rolls the user message back                  *)

\* the chat request in flight fails in this step
ChatErrorHandled ==
    /\ chat.request.pending /\ ~chat'.request.pending
    /\ Len(chat'.messages) <= Len(chat.messages)

\* the message list as it was when the request in flight was sent
SentFrom(list) == HistoryForApi(list) = chat.request.history

\* C22 as stated: after the error is handled the message list is the list
\* from before the send and the loading flag is false.
C22_RolledBackToBeforeSend ==
    [][ChatErrorHandled =>
          /\ HistoryForApi(Append(chat'.messages,
                                  [role |-> "user",
                                   text |-> chat.request.message]))
                = chat.request.history
          /\ ~chat'.isLoading]_vars

\* C22 amended: after the error is handled the loading flag is false and
\* the message list is the list from before the send, or the empty list if
\* the sheet was closed while the request was in flight (the list is then
\* empty when the error arrives).
C22_RolledBackOrCleared ==
    [][ChatErrorHandled =>
          /\ ~chat'.isLoading
          /\ chat.messages # <<>> =>
                /\ chat.messages[Len(chat.messages)] =
                      [role |-> "user", text |-> chat.request.message]
                /\ SentFrom(chat.messages)
                /\ chat'.messages =
                      SubSeq(chat.messages, 1, Len(chat.messages) - 1)
          /\ chat.messages = <<>> => chat'.messages = <<>>]_vars

\* C22 witness: the second message of a conversation failed and was taken
\* back: the first exchange is on display and nothing is loading.
C22_Witness ==
    /\ chat.isOpen /\ ~chat.isLoading /\ ~chat.request.pending
    /\ toast = ToastChatError
    /\ Len(chat.messages) = 2
    /\ Len(chat.request.history) = 2
    /\ chat.messages[2].role = "model"

----------------------------------------------------------------------------
(* C23: the chat history is cleared when the sheet is closed               *)

\* C23: whenever the sheet is closed the message list is empty, also when
\* a chat request was in flight at the close.
C23_ClosedSheetIsEmpty == ~chat.isOpen => chat.messages = <<>>

----------------------------------------------------------------------------
(* C24: every recipe request carries an ingredient signal                  *)

\* this step issues a generateRecipe request
RecipeRequestIssued ==
    tab = "recipe" /\ submits' = submits + 1 /\ pc' = "stage1"

\* C24: a generateRecipe request carries a non-empty availableIngredients
\* list, a non-empty parsed additionalIngredients list, or a photoDataUri.
C24_RequestHasIngredientSignal ==
    [][RecipeRequestIssued =>
          \/ Len(req'.availableIngredients) > 0
          \/ Len(req'.additionalIngredients) > 0
          \/ req'.photoDataUri # "undefined"]_vars

----------------------------------------------------------------------------
(* C25: every submission leaves the Submitting state                       *)

\* C25: whenever a generator's loading flag is true it is false again
\* later, provided that every external call returns or throws.
C25_SubmittingEnds == isLoading ~> ~isLoading

----------------------------------------------------------------------------
(* C26: the lists in memory are the lists in storage                       *)

\* what is persisted under category c, read as the load effect reads it:
\* nothing, or text that cannot be parsed, counts as the empty list
Persisted(c) ==
    LET parsed == ParseOrEmpty(storage[c])
    IN  IF parsed.ok THEN parsed.val ELSE Arr(<<>>)

\* C26: after initialization the list held in memory for a category is the
\* list persisted under the category's key (where a list, or nothing that
\* can be read, is persisted).
C26_MemoryEqualsStorage ==
    isInitialized =>
        \A c \in Categories : IsArray(Persisted(c)) => seen[c] = Persisted(c)

----------------------------------------------------------------------------
(* C27: the `destination|dish` key round-trips                             *)

\* C27: the seenDishes of a request built after a passport was recorded for
\* destination D hold exactly the recorded names when the request asks for
\* D, and no name when it asks for another destination.
C27_KeyRoundTrips ==
    passportKey.built =>
        IF passportKey.asked = passportKey.destination
        THEN SeqToSet(passportKey.seenDishes) = SeqToSet(passportKey.dishes)
        ELSE passportKey.seenDishes = <<>>


(* C28: the passport UI presents a result as "Generation Failed"           *)
(* (destructive toast, failure alert, "Try Again") only when the flow      *)
(* returned the fallback passport because text generation failed; a        *)
(* passport whose text generation succeeded is never presented so,         *)
(* whatever became of its image and audio requests and however many        *)
(* recommendations it has.                                                 *)

PresentedAsFailure ==
    /\ tab = "passport"
    /\ ended = "failed"
    /\ toast = ToastGenerationFailed
    /\ PassportShowsFallback(result)

C28_FailureOnlyForFallback ==
    PresentedAsFailure =>
        /\ result = createFallbackPassport
        /\ calls.text = PassportMaxTextAttempts
        /\ calls.audio = 0

====
